---------------------------- MODULE Spec2Model ----------------------------
(***************************************************************************)
(* SplitwisePro: the expense ledger of AppContext.tsx (in-memory React     *)
(* state, derived balance views, mutations) over StorageService.ts (JSON   *)
(* collections in AsyncStorage, one read-modify-write round trip per       *)
(* mutation).  Amounts are integers (minor currency units).                *)
(***************************************************************************)
EXTENDS Integers, Sequences, FiniteSets, TLC

(***************************************************************************)
(* Bounds of the model.                                                    *)
(***************************************************************************)
MaxOps      == 1   \* operations of one behaviour, one at a time
MaxClock    == 3   \* readings of new Date(): 0..MaxClock
MaxFaults   == 1   \* AsyncStorage failures injected in one behaviour
MaxCalls    == 2   \* AppContext calls of one behaviour when they may overlap

(***************************************************************************)
(* Values.                                                                 *)
(***************************************************************************)
Undefined == "undefined"            \* the JavaScript value undefined
LocalUser == "u1"                   \* id of the local user
FriendIds == {"f1", "f2"}           \* ids of the friend directory
PersonIds == {LocalUser} \cup FriendIds

\* generateId(): the n-th identifier handed out (distinct strings)
GenerateId(n) == ToString(n)
\* an identifier generateId never handed out
DanglingId == "0"

DefaultUser == [id |-> LocalUser, name |-> "User"]
OtherUser   == [id |-> LocalUser, name |-> "Me"]

NameOf(id) == IF id = LocalUser THEN "User" ELSE id

Part(id, share) ==
  [userId |-> id, name |-> NameOf(id), amount |-> share, isSettled |-> FALSE]

\* A Date object and the ISO string JSON.stringify turns it into.
DateOf(t) == [ms |-> t]
IsoOf(t)  == [iso |-> t]
TimeOf(d) == IF "ms" \in DOMAIN d THEN d.ms ELSE d.iso

DateFields == {"createdAt", "updatedAt"}

\* JSON.parse(JSON.stringify(record)): keys whose value is undefined are
\* dropped, Date values come back as ISO strings.
OptionalFields == {"groupId"}

JsonRecord(r) ==
  [f \in {k \in DOMAIN r : ~(k \in OptionalFields /\ r[k] = Undefined)} |->
     IF f \in DateFields THEN IsoOf(TimeOf(r[f])) ELSE r[f]]

JsonList(list) == [i \in 1 .. Len(list) |-> JsonRecord(list[i])]

\* An AsyncStorage item: absent (getItem gives null) or a JSON string.
NoItem        == [absent |-> TRUE]
Stringify(v)  == [json |-> v]
ParseList(it) == IF "json" \in DOMAIN it THEN it.json ELSE <<>>

\* record.field, undefined for a missing key
Get(r, f) == IF f \in DOMAIN r THEN r[f] ELSE Undefined

\* { ...base, ...updates }
Merge(base, updates) ==
  [f \in DOMAIN base \cup DOMAIN updates |->
     IF f \in DOMAIN updates THEN updates[f] ELSE base[f]]

\* list.findIndex(e => e.id === id), 0 for -1
FindIndex(list, id) ==
  IF \E i \in 1 .. Len(list) : list[i].id = id
  THEN CHOOSE i \in 1 .. Len(list) :
         list[i].id = id /\ \A j \in 1 .. (i - 1) : list[j].id # id
  ELSE 0

Ids(list) == {list[i].id : i \in 1 .. Len(list)}

(***************************************************************************)
(* Balance engine (AppContext.tsx, balances and groupBalances).            *)
(***************************************************************************)
IsUnsettled(expense) == ~expense.isSettled

\* mutants of AmountPaid: the payer's payment is never subtracted; the payer
\* is credited with the own share instead of the expense amount
AmountPaidNever(expense, participant) == 0

AmountPaidShare(expense, participant) ==
  IF expense.paidBy = participant.userId THEN participant.amount ELSE 0

AmountPaid(expense, participant) ==
  IF expense.paidBy = participant.userId THEN expense.amount ELSE 0

NetDelta(expense, participant) ==
  participant.amount - AmountPaid(expense, participant)

\* balanceMap.get(userId): index of the row, 0 when the map has none
RowIndex(rows, userId) ==
  IF \E i \in 1 .. Len(rows) : rows[i].userId = userId
  THEN CHOOSE i \in 1 .. Len(rows) : rows[i].userId = userId
  ELSE 0

\* the body of expense.participants.forEach for one participant
AddParticipant(rows, expense, participant) ==
  LET idx     == RowIndex(rows, participant.userId)
      current == IF idx # 0 THEN rows[idx]
                 ELSE [userId |-> participant.userId,
                       name   |-> participant.name,
                       amount |-> 0]
      updated == [current EXCEPT !.amount = @ + NetDelta(expense, participant)]
  IN  IF idx # 0 THEN [rows EXCEPT ![idx] = updated] ELSE Append(rows, updated)

RECURSIVE AddParticipants(_, _, _)
AddParticipants(rows, expense, k) ==
  IF k > Len(expense.participants) THEN rows
  ELSE AddParticipants(AddParticipant(rows, expense, expense.participants[k]),
                       expense, k + 1)

RECURSIVE AddExpenses(_, _)
AddExpenses(rows, list) ==
  IF list = <<>> THEN rows
  ELSE AddExpenses(AddParticipants(rows, Head(list), 1), Tail(list))

\* the balances memo
Balances(list) == AddExpenses(<<>>, SelectSeq(list, IsUnsettled))

RECURSIVE SumAmounts(_)
SumAmounts(rows) ==
  IF rows = <<>> THEN 0 ELSE Head(rows).amount + SumAmounts(Tail(rows))

GetTotalBalance(list) == SumAmounts(Balances(list))

Abs(x) == IF x < 0 THEN -x ELSE x

\* mutant of SumAbs: the amounts are added with their signs
SumSigned(rows) == SumAmounts(rows)

RECURSIVE SumAbs(_)
SumAbs(rows) ==
  IF rows = <<>> THEN 0 ELSE Abs(Head(rows).amount) + SumAbs(Tail(rows))

\* mutant of InGroupUnsettled: the expenses of every group are taken
InAnyGroupUnsettled(expense, groupId) == ~expense.isSettled

InGroupUnsettled(expense, groupId) ==
  Get(expense, "groupId") = groupId /\ ~expense.isSettled

GroupRows(list, groupId) ==
  LET Keep(e) == InGroupUnsettled(e, groupId)
  IN  AddExpenses(<<>>, SelectSeq(list, Keep))

\* n / 2, kept exact: the number n of halves
Half(n) == [halves |-> n]

GroupBalanceOf(list, group) ==
  [groupId     |-> group.id,
   groupName   |-> group.name,
   balances    |-> GroupRows(list, group.id),
   totalAmount |-> Half(SumAbs(GroupRows(list, group.id)))]

\* the groupBalances memo
GroupBalances(list, groupList) ==
  [i \in 1 .. Len(groupList) |-> GroupBalanceOf(list, groupList[i])]

(***************************************************************************)
(* Category views (AppContext.tsx, getExpensesByCategory and its group and *)
(* personal variants): a mapping from the categories met to their totals.  *)
(***************************************************************************)
\* const categoryTotals: Record<string, number> = {}
NoTotals == [k \in {} |-> 0]

\* mutant of AddToCategory: the expenses are counted, not their amounts added
AddToCategoryCount(totals, expense) ==
  [k \in DOMAIN totals \cup {expense.category} |->
     IF k = expense.category
     THEN (IF k \in DOMAIN totals THEN totals[k] ELSE 0) + 1
     ELSE totals[k]]

\* mutant of AddToCategory: a settled expense is left out of the totals
AddToCategoryUnsettled(totals, expense) ==
  IF expense.isSettled THEN totals
  ELSE [k \in DOMAIN totals \cup {expense.category} |->
          IF k = expense.category
          THEN (IF k \in DOMAIN totals THEN totals[k] ELSE 0) + expense.amount
          ELSE totals[k]]

\* categoryTotals[category] = (categoryTotals[category] || 0) + expense.amount
AddToCategory(totals, expense) ==
  [k \in DOMAIN totals \cup {expense.category} |->
     IF k = expense.category
     THEN (IF k \in DOMAIN totals THEN totals[k] ELSE 0) + expense.amount
     ELSE totals[k]]

RECURSIVE CategoryTotals(_, _)
CategoryTotals(totals, list) ==
  IF list = <<>> THEN totals
  ELSE CategoryTotals(AddToCategory(totals, Head(list)), Tail(list))

\* !!expense.groupId
HasGroup(expense) == Get(expense, "groupId") # Undefined

\* mutant of IsPersonal: every expense is taken for a personal one
IsPersonalAlways(expense) == TRUE

\* !expense.groupId
IsPersonal(expense) == Get(expense, "groupId") = Undefined

GetExpensesByCategory(list) == CategoryTotals(NoTotals, list)

GetGroupExpensesByCategory(list) ==
  CategoryTotals(NoTotals, SelectSeq(list, HasGroup))

GetPersonalExpensesByCategory(list) ==
  CategoryTotals(NoTotals, SelectSeq(list, IsPersonal))

(***************************************************************************)
(* State.                                                                  *)
(***************************************************************************)
VARIABLES
  expenses,   \* useState<Expense[]>
  groups,     \* useState<Group[]>
  user,       \* useState<User | null>
  storage,    \* AsyncStorage: key -> item
  calls,      \* the AppContext calls in flight, oldest first
  nextId,     \* number of identifiers generateId handed out, plus one
  clock,      \* the reading of new Date()
  faults,     \* AsyncStorage failures so far
  ops,        \* operations so far: AppContext calls, alerted presses of Save
  mode,       \* "serial": one call at a time; "concurrent": calls overlap;
              \* "sequence": a call starts when the calls before it have
              \* returned; "history": when they have finished
  screen,     \* AddExpenseScreen: the form as saved last, the alert it raised
  friends     \* FriendsContext: useState<Friend[]>

vars == <<expenses, groups, user, storage, calls, nextId, clock, faults, ops, mode,
          screen, friends>>

Snapshot ==
  [expenses |-> expenses, groups |-> groups, user |-> user, storage |-> storage]

StoredExpenses == ParseList(storage.expenses)
StoredGroups   == ParseList(storage.groups)

(***************************************************************************)
(* StorageService: what each method writes back after its read.            *)
(***************************************************************************)
\* getExpenses / getGroups: a failed read is logged and answered with []
GetList(item, ok) == IF ok THEN ParseList(item) ELSE <<>>

\* saveExpense / saveGroup: [...list, record]
SaveRecord(list, record) == Append(list, record)

\* updateExpense / updateGroup: list[index] = { ...list[index], ...updates }
UpdateRecord(list, id, updates) ==
  [list EXCEPT ![FindIndex(list, id)] = Merge(@, updates)]

\* deleteExpense, deleteFriend and deleteGroup's first half:
\* filter(x => x.id !== id)
DeleteRecord(list, id) ==
  LET Keep(x) == x.id # id IN SelectSeq(list, Keep)

\* deleteGroup's second half: filter(expense => expense.groupId !== groupId)
DeleteGroupExpenses(list, groupId) ==
  LET Keep(x) == Get(x, "groupId") # groupId IN SelectSeq(list, Keep)

\* A StorageService call in flight.  pc: "getItem" -> "setItem" -> "done",
\* deleteGroup goes on "getItem2" -> "setItem2" -> "done"; "failed" after a
\* rejected setItem.
NewTask(kind, arg) ==
  [kind |-> kind, arg |-> arg,
   pc   |-> IF kind = "saveUser" THEN "setItem" ELSE "getItem",
   buf  |-> IF kind = "saveUser" THEN arg ELSE <<>>,
   readOk |-> TRUE]   \* no getItem of the task threw so far

TaskKey(task) ==
  CASE task.kind \in {"saveExpense", "updateExpense", "deleteExpense"} -> "expenses"
    [] task.kind \in {"saveGroup", "updateGroup"} -> "groups"
    [] task.kind = "deleteGroup" ->
         IF task.pc \in {"getItem", "setItem"} THEN "groups" ELSE "expenses"
    [] task.kind = "deleteFriend" -> "friends"
    [] OTHER -> "user"

\* the task after its getItem answered `list`
AfterGetItem(task, list) ==
  CASE task.kind \in {"saveExpense", "saveGroup"} ->
         [task EXCEPT !.pc = "setItem", !.buf = SaveRecord(list, task.arg)]
    [] task.kind \in {"updateExpense", "updateGroup"} ->
         IF FindIndex(list, task.arg.id) # 0
         THEN [task EXCEPT !.pc = "setItem",
                           !.buf = UpdateRecord(list, task.arg.id, task.arg.updates)]
         ELSE [task EXCEPT !.pc = "done"]
    [] task.kind \in {"deleteExpense", "deleteFriend"} ->
         [task EXCEPT !.pc = "setItem", !.buf = DeleteRecord(list, task.arg)]
    [] OTHER -> \* deleteGroup
         IF task.pc = "getItem"
         THEN [task EXCEPT !.pc = "setItem", !.buf = DeleteRecord(list, task.arg)]
         ELSE [task EXCEPT !.pc = "setItem2",
                           !.buf = DeleteGroupExpenses(list, task.arg)]

\* the task after its setItem resolved
AfterSetItem(task) ==
  IF task.kind = "deleteGroup" /\ task.pc = "setItem"
  THEN [task EXCEPT !.pc = "getItem2", !.buf = <<>>]
  ELSE [task EXCEPT !.pc = "done"]

\* what setItem stores: JSON.stringify of the value
ItemOf(task) ==
  IF task.kind = "saveUser" THEN Stringify(JsonRecord(task.buf))
  ELSE Stringify(JsonList(task.buf))

(***************************************************************************)
(* AppContext: what each call does once its storage calls have resolved.   *)
(***************************************************************************)
\* addExpense: { ...expenseData, id, createdAt, updatedAt }
BuildRecord(data, id, now) ==
  Merge(data, [id |-> id, createdAt |-> DateOf(now), updatedAt |-> DateOf(now)])

\* updateExpense / updateGroup: { ...updates, updatedAt: new Date() }
WithUpdatedAt(updates, now) == Merge(updates, [updatedAt |-> DateOf(now)])

\* setExpenses(prev => [...prev, expense])
AddExpenseCommit(prev, expense) == Append(prev, expense)

\* setExpenses(prev => prev.map(e => e.id === id ? { ...e, ...updated } : e))
UpdateCommit(prev, id, updated) ==
  [i \in 1 .. Len(prev) |->
     IF prev[i].id = id THEN Merge(prev[i], updated) ELSE prev[i]]

\* setExpenses(prev => prev.filter(e => e.id !== id))
DeleteCommit(prev, id) ==
  LET Keep(x) == x.id # id IN SelectSeq(prev, Keep)

\* mutant of GroupExpenseIds: the settled expenses of the group are taken too
GroupExpenseIdsAll(list, groupId) ==
  LET Keep(e) == Get(e, "groupId") = groupId
      kept    == SelectSeq(list, Keep)
  IN  [i \in 1 .. Len(kept) |-> kept[i].id]

\* settleGroup: ids of the unsettled expenses of the group
GroupExpenseIds(list, groupId) ==
  LET Keep(e) == InGroupUnsettled(e, groupId)
      kept    == SelectSeq(list, Keep)
  IN  [i \in 1 .. Len(kept) |-> kept[i].id]

SettledUpdate(now) == [isSettled |-> TRUE, updatedAt |-> DateOf(now)]

InSeq(x, list) == \E i \in 1 .. Len(list) : list[i] = x

\* setExpenses(prev => prev.map(e => ids.includes(e.id) ? {...e, ...} : e))
SettleGroupCommit(prev, ids, now) ==
  [i \in 1 .. Len(prev) |->
     IF InSeq(prev[i].id, ids) THEN Merge(prev[i], SettledUpdate(now))
     ELSE prev[i]]

\* deleteGroup: setGroups(prev => prev.filter(group => group.id !== groupId))
DeleteGroupCommit(prev, groupId) ==
  LET Keep(x) == x.id # groupId IN SelectSeq(prev, Keep)

\* groups.find(g => g.id === groupId)?.members.find(m => m.userId === id)?.name
MemberName(groupList, groupId, id) ==
  LET gi == FindIndex(groupList, groupId)
      ms == IF gi = 0 THEN <<>> ELSE groupList[gi].members
  IN  IF \E j \in 1 .. Len(ms) : ms[j].userId = id
      THEN ms[CHOOSE j \in 1 .. Len(ms) : ms[j].userId = id].name
      ELSE Undefined

PayerName(groupList, usr, groupId, id) ==
  IF MemberName(groupList, groupId, id) # Undefined
  THEN MemberName(groupList, groupId, id) ELSE usr.name

PayeeName(groupList, groupId, id) ==
  IF MemberName(groupList, groupId, id) # Undefined
  THEN MemberName(groupList, groupId, id) ELSE "Payee"

\* mutant of SettlementData: the payee carries the share, the record is open
SettlementDataTransfer(groupList, usr, groupId, fromUserId, toUserId, amount) ==
  [title    |-> "Settlement",
   amount   |-> amount,
   category |-> "other",
   paidBy   |-> fromUserId,
   groupId  |-> groupId,
   participants |->
     << [userId |-> fromUserId,
         name |-> PayerName(groupList, usr, groupId, fromUserId),
         amount |-> 0, isSettled |-> FALSE],
        [userId |-> toUserId,
         name |-> PayeeName(groupList, groupId, toUserId),
         amount |-> amount, isSettled |-> FALSE] >>,
   isSettled |-> FALSE]

\* the record settleBetweenUsers hands to addExpense
SettlementData(groupList, usr, groupId, fromUserId, toUserId, amount) ==
  [title    |-> "Settlement",
   amount   |-> amount,
   category |-> "other",
   paidBy   |-> fromUserId,
   groupId  |-> groupId,
   participants |->
     << [userId |-> fromUserId,
         name |-> PayerName(groupList, usr, groupId, fromUserId),
         amount |-> amount, isSettled |-> TRUE],
        [userId |-> toUserId,
         name |-> PayeeName(groupList, groupId, toUserId),
         amount |-> 0, isSettled |-> TRUE] >>,
   isSettled |-> TRUE]

\* the in-memory expense list once the call's storage calls all resolved
\* mutant of ExpensesAfter: a friend removed from a group or deleted from the
\* directory is taken out of the expenses as well
ExpensesAfterForgetting(call, prev, now) ==
  IF call.op \in {"removeMemberFromGroup", "deleteFriend"}
  THEN [i \in 1 .. Len(prev) |->
          [prev[i] EXCEPT !.participants =
             SelectSeq(@, LAMBDA p : p.userId # call.args.friendId)]]
  ELSE prev

ExpensesAfter(call, prev, now) ==
  CASE call.op \in {"addExpense", "settleBetweenUsers"} ->
         AddExpenseCommit(prev, call.payload)
    [] call.op = "updateExpense" ->
         UpdateCommit(prev, call.payload.id, call.payload.updates)
    [] call.op = "deleteExpense" -> DeleteCommit(prev, call.payload)
    [] call.op = "settleGroup" -> SettleGroupCommit(prev, call.payload, now)
    [] OTHER -> prev

GroupsAfter(call, prev) ==
  CASE call.op = "addGroup" -> Append(prev, call.payload)
    [] call.op \in {"updateGroup", "addMemberToGroup", "removeMemberFromGroup"} ->
         UpdateCommit(prev, call.payload.id, call.payload.updates)
    [] call.op = "deleteGroup" -> DeleteGroupCommit(prev, call.payload)
    [] OTHER -> prev

UserAfter(call, prev) ==
  IF call.op = "updateUser" THEN call.payload ELSE prev

\* FriendsContext.deleteFriend: setFriends(prev => prev.filter(...))
FriendsAfter(call, prev) ==
  IF call.op = "deleteFriend" THEN DeleteCommit(prev, call.payload) ELSE prev

(***************************************************************************)
(* The member resolver of the expense form and of the group screen.        *)
(***************************************************************************)
Null == "null"                      \* no group selected

\* an id that the friend directory no longer has (the friend was deleted)
DeletedFriend == "f3"

\* mutant of GetFriendById: an id that is not in the directory resolves too
GetFriendByIdAny(friendId) == << [id |-> friendId, name |-> NameOf(friendId)] >>

\* friends.find(friend => friend.id === friendId); the result is optional:
\* << friend >> when found, << >> when undefined
GetFriendById(friendId) ==
  LET found == SelectSeq(friends, LAMBDA friend : friend.id = friendId)
  IN  IF found # << >> THEN << [id |-> found[1].id, name |-> found[1].name] >>
      ELSE << >>

\* group.friendIds.forEach(friendId => { if (friend) participants.push(...) })
RECURSIVE PushFriends(_, _)
PushFriends(participants, friendIds) ==
  IF friendIds = <<>> THEN participants
  ELSE LET friend == GetFriendById(Head(friendIds))
       IN  PushFriends(IF friend # << >>
                       THEN Append(participants,
                                   [id |-> Head(friendIds), name |-> friend[1].name,
                                    isFriend |-> TRUE])
                       ELSE participants,
                       Tail(friendIds))

UserEntry(usr) == [id |-> usr.id, name |-> usr.name, isFriend |-> FALSE]

GetAvailableParticipants(selectedGroup, groupList, usr) ==
  IF selectedGroup = Null THEN <<UserEntry(usr)>>
  ELSE IF FindIndex(groupList, selectedGroup) = 0 THEN <<>>
  ELSE LET group == groupList[FindIndex(groupList, selectedGroup)]
       IN  IF "friendIds" \in DOMAIN group
           THEN PushFriends(<<UserEntry(usr)>>, group.friendIds)
           ELSE <<UserEntry(usr)>>

(***************************************************************************)
(* The expense form (AddExpenseScreen.handleSave). Amounts are counted in  *)
(* thousandths of the currency unit.                                       *)
(***************************************************************************)
Tolerance == 10                     \* 0.01

\* text.trim() on the texts the form is given
Trim(text) == IF text \in {"", "  "} THEN "" ELSE text

\* Number(text): << n >>, or << >> for NaN
NumberOf(text) ==
  CASE text = "100.00"      -> << 100000 >>
    [] text = "0"           -> << 0 >>
    [] text \in {"", "  "}  -> << 0 >>
    [] OTHER                -> << >>

Split(id, share) == [participantId |-> id, amount |-> share]

\* customSplits.reduce((sum, split) => sum + split.amount, 0)
TotalCustomAmount(customSplits) == SumAmounts(customSplits)

\* mutant of Exceeds: the custom total is never compared with the amount
ExceedsNever(total, amount, rounding) == FALSE

\* Math.abs(total - amount) > 0.01 in double arithmetic. On thousandths the
\* values decide it, except at a difference of exactly 0.01, where the
\* rounding of the operands does (100 - 99.99 exceeds 0.01, 0.03 - 0.02 does
\* not): `rounding` is that outcome.
Exceeds(total, amount, rounding) ==
  IF Abs(total - amount) = Tolerance THEN rounding
  ELSE Abs(total - amount) > Tolerance

\* participants.filter(id => !customSplits.some(s => s.participantId === id))
MissingSplits(form) ==
  SelectSeq(form.participants,
            LAMBDA id : ~\E k \in 1 .. Len(form.customSplits) :
                           form.customSplits[k].participantId = id)

\* the alert handleSave raises and returns on, "none" when it goes on to save
Validate(form, rounding) ==
  IF Trim(form.title) = "" THEN "title"
  ELSE IF \/ Trim(form.amount) = ""
          \/ NumberOf(form.amount) = << >>
          \/ NumberOf(form.amount)[1] <= 0 THEN "amount"
  ELSE IF form.selectedGroup # Null /\ form.participants = << >>
       THEN "participants"
  ELSE IF /\ form.splitType = "custom"
          /\ Exceeds(TotalCustomAmount(form.customSplits),
                     NumberOf(form.amount)[1], rounding) THEN "customTotal"
  ELSE IF form.splitType = "custom" /\ MissingSplits(form) # << >>
       THEN "missingSplits"
  ELSE "none"

CalculateSplitAmounts(form, totalAmount, participantIds) ==
  IF form.splitType = "equal"
  THEN [k \in 1 .. Len(participantIds) |->
          Split(participantIds[k], totalAmount \div Len(participantIds))]
  ELSE IF form.splitType = "custom"
  THEN SelectSeq(form.customSplits,
                 LAMBDA split : \E k \in 1 .. Len(participantIds) :
                                  participantIds[k] = split.participantId)
  ELSE << >>

\* splitAmounts.map(split => ({ userId, name, amount, isSettled: false }))
ExpenseParticipants(form, groupList, usr) ==
  LET available == GetAvailableParticipants(form.selectedGroup, groupList, usr)
      selected  == IF form.selectedGroup # Null THEN form.participants
                   ELSE << usr.id >>
      splits    == CalculateSplitAmounts(form, NumberOf(form.amount)[1], selected)
      NameIn(id) ==
        LET found == SelectSeq(available, LAMBDA p : p.id = id)
        IN  IF found = << >> THEN "Unknown" ELSE found[1].name
  IN  [k \in 1 .. Len(splits) |->
         [userId |-> splits[k].participantId,
          name |-> NameIn(splits[k].participantId),
          amount |-> splits[k].amount, isSettled |-> FALSE]]

\* what handleSave hands to updateExpense, and with isSettled to addExpense
FormUpdates(form, groupList, usr) ==
  [title |-> Trim(form.title), amount |-> NumberOf(form.amount)[1],
   category |-> form.category, paidBy |-> form.payer,
   groupId |-> IF form.selectedGroup = Null THEN Undefined
               ELSE form.selectedGroup,
   participants |-> ExpenseParticipants(form, groupList, usr),
   splitType |-> form.splitType]

FormData(form, groupList, usr) ==
  Merge(FormUpdates(form, groupList, usr), [isSettled |-> FALSE])

\* the form as the screen opens it for a new expense
NewForm ==
  [title |-> "", amount |-> "", selectedGroup |-> Null, participants |-> << >>,
   splitType |-> "equal", customSplits |-> << >>, payer |-> LocalUser,
   expenseId |-> Null, category |-> "other"]

(***************************************************************************)
(* Inputs of the calls.                                                    *)
(***************************************************************************)
ExpenseData(title, amount, category, paidBy, groupId, participants) ==
  [title |-> title, amount |-> amount, category |-> category,
   paidBy |-> paidBy, groupId |-> groupId, participants |-> participants,
   isSettled |-> FALSE]

\* group.friendIds && Array.isArray(group.friendIds): the friends on offer
FriendsOf(group) ==
  IF "friendIds" \in DOMAIN group
  THEN {group.friendIds[j] : j \in 1 .. Len(group.friendIds)} ELSE {}

HasFriends(group, ids) == ids \subseteq FriendsOf(group)

GroupsWith(ids) ==
  {groups[i].id : i \in {j \in 1 .. Len(groups) : HasFriends(groups[j], ids)}}

\* what the expense form can hand to addExpense
ExpenseInputs ==
  {ExpenseData("Taxi", 100, "transport", LocalUser, Undefined,
               <<Part(LocalUser, 100)>>)}
  \cup {ExpenseData("Dinner", 100, "food", LocalUser, g,
                    <<Part(LocalUser, 50), Part("f1", 50)>>) :
          g \in GroupsWith({"f1"})}
  \cup {ExpenseData("Trip", 90, "travel", "f1", g,
                    <<Part("f1", 30), Part("f2", 30), Part(LocalUser, 30)>>) :
          g \in GroupsWith({"f1", "f2"})}

\* the second custom share typed next to a first of 50.000: the total is the
\* amount, 0.005 under, 0.01 under, 5.00 under
SecondShares == {50000, 49995, 49990, 45000}

\* the forms Save is pressed on
FormInputs ==
  LET Lunch   == [NewForm EXCEPT !.title = "Lunch", !.amount = "100.00",
                                 !.category = "food"]
      Both    == << LocalUser, "f1" >>
      Custom(g, share) ==
        [Lunch EXCEPT !.selectedGroup = g, !.participants = Both,
                      !.splitType = "custom",
                      !.customSplits = << Split(LocalUser, 50000),
                                          Split("f1", share) >>]
  IN  {Lunch, [Lunch EXCEPT !.title = "  "]}
      \cup {[Lunch EXCEPT !.amount = text] : text \in {"", "0", "abc"}}
      \cup {Custom(g, share) : g \in GroupsWith({"f1"}), share \in SecondShares}
      \cup {[Lunch EXCEPT !.selectedGroup = g, !.participants = ps] :
              g \in GroupsWith({"f1"}), ps \in {<< >>, Both}}
      \cup {[Custom(g, share) EXCEPT !.expenseId = id] :
              g \in GroupsWith({"f1"}), share \in {49995, 45000},
              id \in Ids(expenses)}
      \* a payer picked from the members of the group (setPayer)
      \cup {[Lunch EXCEPT !.selectedGroup = g, !.participants = ps,
                          !.payer = "f1"] :
              g \in GroupsWith({"f1"}), ps \in {<< LocalUser >>, Both}}
      \cup {[Lunch EXCEPT !.selectedGroup = g, !.participants = << "f1" >>] :
              g \in GroupsWith({"f1"})}
      \* Personal pressed after a group form was filled in: setSelectedGroup(null)
      \* leaves participants, splitType, customSplits and payer as they are
      \cup {[form EXCEPT !.selectedGroup = Null] :
              form \in UNION {{Custom(g, 50000),
                               [Lunch EXCEPT !.participants = Both,
                                             !.payer = "f1"],
                               [Lunch EXCEPT !.participants = << "f1" >>,
                                             !.splitType = "custom",
                                             !.customSplits =
                                               << Split("f1", 100000) >>]} :
                              g \in GroupsWith({"f1"})}}

UpdateInputs == {[isSettled |-> FALSE], [paidBy |-> "f2", amount |-> 60]}

\* what the two group forms hand to addGroup: the local user as only member,
\* or no member and the selected friends
GroupInputs ==
  {[name |-> "Flat", members |-> <<[userId |-> user.id, name |-> user.name]>>]}
  \cup {[name |-> "Flat", members |-> <<>>, friendIds |-> fs] :
          fs \in {<<"f1">>, <<"f1", "f2">>}}

GroupUpdateInputs == {[name |-> "Home"]}

UserInputs == {DefaultUser, OtherUser}

SettlementInputs ==
  {[fromUserId |-> "f1", toUserId |-> LocalUser, amount |-> 50],
   [fromUserId |-> LocalUser, toUserId |-> LocalUser, amount |-> 50],
   [fromUserId |-> "f2", toUserId |-> "f1", amount |-> 50],
   [fromUserId |-> "f1", toUserId |-> LocalUser, amount |-> 0],
   [fromUserId |-> "f1", toUserId |-> LocalUser, amount |-> -50]}

ExpenseRefs == Ids(expenses) \cup {DanglingId}

GroupRefs ==
  Ids(groups) \cup {DanglingId}
    \cup ({Get(expenses[i], "groupId") : i \in 1 .. Len(expenses)} \ {Undefined})

(***************************************************************************)
(* Actions.                                                                *)
(***************************************************************************)
CanStart ==
  CASE mode = "serial" -> ops < MaxOps /\ calls = <<>>
    [] mode = "sequence" -> ops < MaxCalls /\ calls = <<>>
    [] mode = "history" ->
         /\ ops < MaxCalls
         /\ \A i \in 1 .. Len(calls) :
              /\ calls[i].result # "pending"
              /\ \A k \in 1 .. Len(calls[i].tasks) :
                   calls[i].tasks[k].pc \in {"done", "failed"}
    [] OTHER -> ops < MaxCalls

\* mutant of Launch: the React state is updated before the storage calls answer
LaunchOptimistic(op, args, payload, tasks) ==
  LET call == [op |-> op, args |-> args, payload |-> payload, tasks |-> tasks,
               result |-> "pending", pre |-> Snapshot]
  IN  /\ ops' = ops + 1
      /\ calls' = Append(calls, IF tasks = <<>>
                                THEN [call EXCEPT !.result = "resolved"]
                                ELSE call)
      /\ expenses' = ExpensesAfter(call, expenses, clock)
      /\ groups' = GroupsAfter(call, groups)
      /\ user' = UserAfter(call, user)

\* A call begins: its synchronous part ran and its storage calls are issued.
\* With no storage call to wait for (Promise.all([])) it resolves at once.
Launch(op, args, payload, tasks) ==
  LET call == [op |-> op, args |-> args, payload |-> payload, tasks |-> tasks,
               result |-> "pending", pre |-> Snapshot]
  IN  /\ ops' = ops + 1
      /\ IF tasks = <<>>
         THEN /\ calls' = Append(calls, [call EXCEPT !.result = "resolved"])
              /\ expenses' = ExpensesAfter(call, expenses, clock)
              /\ groups' = GroupsAfter(call, groups)
              /\ user' = UserAfter(call, user)
         ELSE /\ calls' = Append(calls, call)
              /\ UNCHANGED <<expenses, groups, user>>

\* Task k of call i moved to `task`: when that resolves the call, its
\* continuation updates the React state; when it fails, the call rejects.
Complete(i, k, task) ==
  LET call     == calls[i]
      tasks2   == [call.tasks EXCEPT ![k] = task]
      resolves == /\ call.result = "pending"
                  /\ \A j \in 1 .. Len(tasks2) : tasks2[j].pc = "done"
      rejects  == call.result = "pending" /\ task.pc = "failed"
      result2  == IF resolves THEN "resolved"
                  ELSE IF rejects THEN "rejected" ELSE call.result
  IN  /\ calls' = [calls EXCEPT ![i] =
                     [call EXCEPT !.tasks = tasks2, !.result = result2]]
      /\ expenses' = IF resolves THEN ExpensesAfter(call, expenses, clock)
                     ELSE expenses
      /\ groups' = IF resolves THEN GroupsAfter(call, groups) ELSE groups
      /\ user' = IF resolves THEN UserAfter(call, user) ELSE user
      /\ friends' = IF resolves THEN FriendsAfter(call, friends) ELSE friends

\* Save is pressed on the form: an alert and nothing else, or the call of
\* updateExpense (edit mode, the expense exists) or of addExpense
HandleSave(form, rounding) ==
  /\ CanStart
  /\ LET alert == Validate(form, rounding)
     IN  /\ screen' = [form |-> form, alert |-> alert]
         /\ IF alert # "none"
            THEN /\ ops' = ops + 1
                 /\ UNCHANGED <<expenses, groups, user, calls, nextId>>
            ELSE IF form.expenseId # Null /\ FindIndex(expenses, form.expenseId) # 0
            THEN LET updates == FormUpdates(form, groups, user)
                     updated == [id |-> form.expenseId,
                                 updates |-> WithUpdatedAt(updates, clock)]
                 IN  /\ Launch("updateExpense",
                               [id |-> form.expenseId, updates |-> updates],
                               updated, <<NewTask("updateExpense", updated)>>)
                     /\ UNCHANGED nextId
            ELSE LET data    == FormData(form, groups, user)
                     expense == BuildRecord(data, GenerateId(nextId), clock)
                 IN  /\ Launch("addExpense", data, expense,
                               <<NewTask("saveExpense", expense)>>)
                     /\ nextId' = nextId + 1
  /\ UNCHANGED <<storage, clock, faults, mode, friends>>

AddExpense(data) ==
  /\ CanStart
  /\ LET expense == BuildRecord(data, GenerateId(nextId), clock)
     IN  Launch("addExpense", data, expense, <<NewTask("saveExpense", expense)>>)
  /\ nextId' = nextId + 1
  /\ UNCHANGED <<storage, clock, faults, mode, screen, friends>>

UpdateExpense(id, updates) ==
  /\ CanStart
  /\ LET updated == [id |-> id, updates |-> WithUpdatedAt(updates, clock)]
     IN  Launch("updateExpense", [id |-> id, updates |-> updates], updated,
                <<NewTask("updateExpense", updated)>>)
  /\ UNCHANGED <<storage, nextId, clock, faults, mode, screen, friends>>

DeleteExpense(id) ==
  /\ CanStart
  /\ Launch("deleteExpense", [id |-> id], id, <<NewTask("deleteExpense", id)>>)
  /\ UNCHANGED <<storage, nextId, clock, faults, mode, screen, friends>>

SettleGroup(groupId) ==
  /\ CanStart
  /\ LET ids == GroupExpenseIds(expenses, groupId)
     IN  Launch("settleGroup", [groupId |-> groupId], ids,
                [n \in 1 .. Len(ids) |->
                   NewTask("updateExpense",
                           [id |-> ids[n], updates |-> SettledUpdate(clock)])])
  /\ UNCHANGED <<storage, nextId, clock, faults, mode, screen, friends>>

SettleBetweenUsers(params) ==
  /\ CanStart
  /\ LET data    == SettlementData(groups, user, params.groupId,
                                   params.fromUserId, params.toUserId,
                                   params.amount)
         expense == BuildRecord(data, GenerateId(nextId), clock)
     IN  Launch("settleBetweenUsers", params, expense,
                <<NewTask("saveExpense", expense)>>)
  /\ nextId' = nextId + 1
  /\ UNCHANGED <<storage, clock, faults, mode, screen, friends>>

AddGroup(data) ==
  /\ CanStart
  /\ LET group == BuildRecord(data, GenerateId(nextId), clock)
     IN  Launch("addGroup", data, group, <<NewTask("saveGroup", group)>>)
  /\ nextId' = nextId + 1
  /\ UNCHANGED <<storage, clock, faults, mode, screen, friends>>

UpdateGroup(id, updates) ==
  /\ CanStart
  /\ LET updated == [id |-> id, updates |-> WithUpdatedAt(updates, clock)]
     IN  Launch("updateGroup", [id |-> id, updates |-> updates], updated,
                <<NewTask("updateGroup", updated)>>)
  /\ UNCHANGED <<storage, nextId, clock, faults, mode, screen, friends>>

DeleteGroup(groupId) ==
  /\ CanStart
  /\ Launch("deleteGroup", [groupId |-> groupId], groupId,
            <<NewTask("deleteGroup", groupId)>>)
  /\ UNCHANGED <<storage, nextId, clock, faults, mode, screen, friends>>

UpdateUser(userData) ==
  /\ CanStart
  /\ Launch("updateUser", userData, userData, <<NewTask("saveUser", userData)>>)
  /\ UNCHANGED <<storage, nextId, clock, faults, mode, screen, friends>>

\* AsyncStorage.getItem of task k of call i answers (ok) or throws (~ok)
GetItem(i, k, ok) ==
  /\ calls[i].tasks[k].pc \in {"getItem", "getItem2"}
  /\ ok \/ faults < MaxFaults
  /\ faults' = IF ok THEN faults ELSE faults + 1
  /\ LET task == calls[i].tasks[k]
         next == AfterGetItem(task, GetList(storage[TaskKey(task)], ok))
     IN  Complete(i, k, [next EXCEPT !.readOk = task.readOk /\ ok])
  /\ UNCHANGED <<storage, nextId, clock, ops, mode, screen>>

\* AsyncStorage.setItem of task k of call i resolves (ok) or rejects (~ok)
SetItem(i, k, ok) ==
  /\ calls[i].tasks[k].pc \in {"setItem", "setItem2"}
  /\ ok \/ faults < MaxFaults
  /\ faults' = IF ok THEN faults ELSE faults + 1
  /\ LET task == calls[i].tasks[k]
     IN  /\ storage' = IF ok THEN [storage EXCEPT ![TaskKey(task)] = ItemOf(task)]
                       ELSE storage
         /\ Complete(i, k, IF ok THEN AfterSetItem(task)
                           ELSE [task EXCEPT !.pc = "failed"])
  /\ UNCHANGED <<nextId, clock, ops, mode, screen>>

Finished(call) ==
  /\ call.result # "pending"
  /\ \A k \in 1 .. Len(call.tasks) : call.tasks[k].pc \in {"done", "failed"}

\* the caller has the answer and nothing of the call is left in flight
Return(i) ==
  /\ Finished(calls[i])
  /\ calls' = [j \in 1 .. (Len(calls) - 1) |->
                 IF j < i THEN calls[j] ELSE calls[j + 1]]
  /\ UNCHANGED <<expenses, groups, user, storage, nextId, clock, faults, ops, mode, screen, friends>>

\* new Date() can still be read: by settleGroup in flight, which reads it when
\* it resolves (the other calls read it as they start), or by a call yet to
\* start
ReadingAhead ==
  \/ \E i \in 1 .. Len(calls) :
       calls[i].op = "settleGroup" /\ calls[i].result = "pending"
  \/ ops < (IF mode = "serial" THEN MaxOps ELSE MaxCalls)

\* Time passes while a call is in flight or waits to be returned, as long as a
\* reading can follow. Time that passes with no call at hand leads to no other
\* state: before the first call it shifts every later reading alike, later it
\* is time that passed just before the last call returned.
Tick ==
  /\ clock < MaxClock
  /\ calls # <<>>
  /\ ReadingAhead
  /\ clock' = clock + 1
  /\ UNCHANGED <<expenses, groups, user, storage, calls, nextId, faults, ops, mode, screen, friends>>

(***************************************************************************)
(* Initial states: the provider mounted and loadData read what an earlier  *)
(* session left in AsyncStorage (records come back in their JSON form).    *)
(***************************************************************************)
\* a group made with the local user as member, friends added to it afterwards
FlatGroup ==
  BuildRecord([name |-> "Flat",
               members |-> <<[userId |-> LocalUser, name |-> "User"]>>,
               friendIds |-> <<"f1", "f2">>], GenerateId(1), 0)

Dinner ==
  BuildRecord(ExpenseData("Dinner", 100, "food", LocalUser, GenerateId(1),
                          <<Part(LocalUser, 50), Part("f1", 50)>>),
              GenerateId(2), 0)

Trip ==
  BuildRecord(ExpenseData("Trip", 90, "travel", "f1", GenerateId(1),
                          <<Part("f1", 30), Part("f2", 30), Part(LocalUser, 30)>>),
              GenerateId(3), 1)

Taxi ==
  BuildRecord(ExpenseData("Taxi", 100, "transport", LocalUser, Undefined,
                          <<Part(LocalUser, 100)>>),
              GenerateId(3), 1)

\* a second group, made with the friend form; one of its friends was deleted
\* from the directory afterwards
Club ==
  BuildRecord([name |-> "Club", members |-> <<>>,
               friendIds |-> <<DeletedFriend, "f1">>],
              GenerateId(2), 0)

\* what settleBetweenUsers left for a settlement of the local user with
\* themselves
SelfSettlement ==
  BuildRecord(SettlementData(<<FlatGroup>>, DefaultUser, GenerateId(1),
                             LocalUser, LocalUser, 50),
              GenerateId(3), 1)

\* what the earlier session persisted: [groups, expenses]
Ledgers ==
  { [groups |-> <<>>, expenses |-> <<>>],
    [groups |-> <<FlatGroup>>, expenses |-> <<Dinner, Trip>>],
    [groups |-> <<FlatGroup>>,
     expenses |-> <<Merge(Dinner, SettledUpdate(1)), Taxi>>],
    [groups |-> <<FlatGroup>>, expenses |-> <<Dinner, SelfSettlement>>],
    [groups |-> <<FlatGroup, Club>>, expenses |-> <<Trip>>] }

\* the friend directory: the friends added with the friend form
FriendRecord(id) ==
  [id |-> id, name |-> NameOf(id), createdAt |-> DateOf(0), updatedAt |-> DateOf(0)]

FriendList == << FriendRecord("f1"), FriendRecord("f2") >>

Loaded(ledger) ==
  /\ storage = [expenses |-> IF ledger.expenses = <<>> THEN NoItem
                             ELSE Stringify(JsonList(ledger.expenses)),
                groups   |-> IF ledger.groups = <<>> THEN NoItem
                             ELSE Stringify(JsonList(ledger.groups)),
                user     |-> Stringify(JsonRecord(DefaultUser)),
                friends  |-> Stringify(JsonList(FriendList))]
  /\ expenses = ParseList(storage.expenses)
  /\ groups = ParseList(storage.groups)
  /\ user = DefaultUser
  /\ friends = ParseList(storage.friends)
  /\ calls = <<>>
  /\ nextId = 4
  /\ clock = 2
  /\ faults = 0
  /\ ops = 0
  /\ screen = [form |-> NewForm, alert |-> "none"]

Init == mode = "serial" /\ \E ledger \in Ledgers : Loaded(ledger)

Next ==
  \/ \E data \in ExpenseInputs : AddExpense(data)
  \/ \E id \in ExpenseRefs, updates \in UpdateInputs : UpdateExpense(id, updates)
  \/ \E id \in ExpenseRefs : DeleteExpense(id)
  \/ \E g \in GroupRefs : SettleGroup(g)
  \/ \E g \in GroupRefs, s \in SettlementInputs :
       SettleBetweenUsers(Merge(s, [groupId |-> g]))
  \/ \E data \in GroupInputs : AddGroup(data)
  \/ \E id \in GroupRefs, updates \in GroupUpdateInputs : UpdateGroup(id, updates)
  \/ \E g \in GroupRefs : DeleteGroup(g)
  \/ \E u \in UserInputs : UpdateUser(u)
  \/ \E i \in 1 .. Len(calls) :
       \E k \in 1 .. Len(calls[i].tasks), ok \in BOOLEAN : GetItem(i, k, ok)
  \/ \E i \in 1 .. Len(calls) :
       \E k \in 1 .. Len(calls[i].tasks), ok \in BOOLEAN : SetItem(i, k, ok)
  \/ \E i \in 1 .. Len(calls) : Return(i)
  \/ Tick

Spec == Init /\ [][Next]_vars

\* the same program worked through the expense form: Save is pressed on a form
\* and the call it makes runs against the store (the call reads new Date() as
\* it starts, so the passing of time makes no difference to it)
NextForm ==
  \/ \E form \in FormInputs, rounding \in BOOLEAN : HandleSave(form, rounding)
  \/ \E i \in 1 .. Len(calls) :
       \E k \in 1 .. Len(calls[i].tasks), ok \in BOOLEAN : GetItem(i, k, ok)
  \/ \E i \in 1 .. Len(calls) :
       \E k \in 1 .. Len(calls[i].tasks), ok \in BOOLEAN : SetItem(i, k, ok)
  \/ \E i \in 1 .. Len(calls) : Return(i)

SpecForm == Init /\ [][NextForm]_vars

\* the same program with a second call started while the first is in flight
InitConcurrent ==
  /\ mode = "concurrent"
  /\ \E ledger \in {l \in Ledgers : \A i \in 1 .. Len(l.expenses) :
                                      ~l.expenses[i].isSettled} : Loaded(ledger)

SpecConcurrent == InitConcurrent /\ [][Next]_vars

(***************************************************************************)
(* Derived-value helpers of the context (getExpensesByGroup,               *)
(* getTotalBalance, getRecentExpenses and the category views), called by   *)
(* the screens while they render.  A helper answers at once; its call      *)
(* record keeps the answer as payload.                                      *)
(***************************************************************************)
GetExpensesByGroup(list, groupId) ==
  SelectSeq(list, LAMBDA expense : Get(expense, "groupId") = groupId)

\* Array.prototype.sort (stable) with the comparator
\* new Date(b.createdAt).getTime() - new Date(a.createdAt).getTime():
\* the last record goes behind the sorted records that are not older
RECURSIVE SortRecent(_)
SortRecent(list) ==
  IF list = <<>> THEN <<>>
  ELSE LET sorted == SortRecent(SubSeq(list, 1, Len(list) - 1))
           last   == list[Len(list)]
           ahead  == Cardinality({j \in 1 .. Len(sorted) :
                        TimeOf(sorted[j].createdAt) >= TimeOf(last.createdAt)})
       IN  SubSeq(sorted, 1, ahead) \o <<last>>
             \o SubSeq(sorted, ahead + 1, Len(sorted))

\* expenses.sort(...) sorts the array it is called on, here the array held in
\* the React state, and returns it; slice copies the first limit records
GetRecentExpenses(list, limit) ==
  LET sorted == SortRecent(list)
  IN  [array |-> sorted,
       result |-> SubSeq(sorted, 1, IF limit < Len(sorted) THEN limit
                                    ELSE Len(sorted))]

Limits == {1, 5}
CategoryViews == {"getExpensesByCategory", "getGroupExpensesByCategory",
                  "getPersonalExpensesByCategory"}

CategoryView(view, list) ==
  CASE view = "getExpensesByCategory" -> GetExpensesByCategory(list)
    [] view = "getGroupExpensesByCategory" -> GetGroupExpensesByCategory(list)
    [] OTHER -> GetPersonalExpensesByCategory(list)

\* a helper called with args answers result and leaves array in the state
Answer(op, args, result, array) ==
  /\ CanStart
  /\ ops' = ops + 1
  /\ calls' = Append(calls, [op |-> op, args |-> args, payload |-> result,
                             tasks |-> <<>>, result |-> "resolved",
                             pre |-> Snapshot])
  /\ expenses' = array
  /\ UNCHANGED <<groups, user, storage, nextId, clock, faults, mode, screen, friends>>

CallGetRecentExpenses(limit) ==
  LET recent == GetRecentExpenses(expenses, limit)
  IN  Answer("getRecentExpenses", [limit |-> limit], recent.result, recent.array)

CallGetExpensesByGroup(groupId) ==
  Answer("getExpensesByGroup", [groupId |-> groupId],
         GetExpensesByGroup(expenses, groupId), expenses)

CallGetTotalBalance ==
  Answer("getTotalBalance", <<>>, GetTotalBalance(expenses), expenses)

CallCategoryView(view) ==
  Answer(view, <<>>, CategoryView(view, expenses), expenses)

\* the screens: an expense is added or not, then a screen renders
InitSequence ==
  /\ mode = "sequence"
  /\ \E ledger \in Ledgers : Loaded(ledger)

NextHelpers ==
  \/ \E data \in ExpenseInputs : AddExpense(data)
  \/ \E limit \in Limits : CallGetRecentExpenses(limit)
  \/ \E groupId \in GroupRefs : CallGetExpensesByGroup(groupId)
  \/ CallGetTotalBalance
  \/ \E view \in CategoryViews : CallCategoryView(view)
  \/ \E i \in 1 .. Len(calls) :
       \E k \in 1 .. Len(calls[i].tasks), ok \in BOOLEAN : GetItem(i, k, ok)
  \/ \E i \in 1 .. Len(calls) :
       \E k \in 1 .. Len(calls[i].tasks), ok \in BOOLEAN : SetItem(i, k, ok)
  \/ \E i \in 1 .. Len(calls) : Return(i)
  \/ Tick

SpecHelpers == InitSequence /\ [][NextHelpers]_vars

(***************************************************************************)
(* Group membership (addMemberToGroup, removeMemberFromGroup) and the      *)
(* friend directory (FriendsContext.deleteFriend).                         *)
(***************************************************************************)
\* group.friendIds || []
FriendIdsOf(group) ==
  IF "friendIds" \in DOMAIN group THEN group.friendIds ELSE <<>>

\* The body shared by addMemberToGroup and removeMemberFromGroup: the group is
\* looked up in the groups of the render the function was made in; 'Group not
\* found' rejects the call before anything is stored; otherwise updateGroup
\* is awaited with the new friendIds.
ChangeMembers(op, groupId, friendId) ==
  LET index == FindIndex(groups, groupId)
      args  == [groupId |-> groupId, friendId |-> friendId]
  IN  /\ CanStart
      /\ IF index = 0
         THEN /\ ops' = ops + 1
              /\ calls' = Append(calls,
                   [op |-> op, args |-> args, payload |-> <<>>, tasks |-> <<>>,
                    result |-> "rejected", pre |-> Snapshot])
              /\ UNCHANGED <<expenses, groups, user>>
         ELSE LET before == FriendIdsOf(groups[index])
                  \* [...before, friendId], before.filter(id => id !== friendId)
                  friendIds == IF op = "addMemberToGroup"
                               THEN Append(before, friendId)
                               ELSE SelectSeq(before, LAMBDA id : id # friendId)
                  updated == [id |-> groupId,
                              updates |-> WithUpdatedAt([friendIds |-> friendIds],
                                                        clock)]
              IN  Launch(op, args, updated, <<NewTask("updateGroup", updated)>>)
      /\ UNCHANGED <<storage, nextId, clock, faults, mode, screen, friends>>

AddMemberToGroup(groupId, friendId) ==
  ChangeMembers("addMemberToGroup", groupId, friendId)

RemoveMemberFromGroup(groupId, friendId) ==
  ChangeMembers("removeMemberFromGroup", groupId, friendId)

DeleteFriend(friendId) ==
  /\ CanStart
  /\ Launch("deleteFriend", [friendId |-> friendId], friendId,
            <<NewTask("deleteFriend", friendId)>>)
  /\ UNCHANGED <<storage, nextId, clock, faults, mode, screen, friends>>

\* the group screen and the friends screen
NextMembers ==
  \/ \E g \in GroupRefs, f \in FriendIds : AddMemberToGroup(g, f)
  \/ \E g \in GroupRefs, f \in FriendIds : RemoveMemberFromGroup(g, f)
  \/ \E f \in Ids(friends) : DeleteFriend(f)
  \/ \E i \in 1 .. Len(calls) :
       \E k \in 1 .. Len(calls[i].tasks), ok \in BOOLEAN : GetItem(i, k, ok)
  \/ \E i \in 1 .. Len(calls) :
       \E k \in 1 .. Len(calls[i].tasks), ok \in BOOLEAN : SetItem(i, k, ok)
  \/ \E i \in 1 .. Len(calls) : Return(i)
  \/ Tick

\* a group as addGroup makes it from the group form: no friend added yet
FreshGroup ==
  BuildRecord([name |-> "Duo",
               members |-> <<[userId |-> LocalUser, name |-> "User"]>>],
              GenerateId(1), 0)

InitMembers(scheduling) ==
  /\ mode = scheduling
  /\ \E ledger \in Ledgers \cup {[groups |-> <<FreshGroup>>,
                                   expenses |-> <<Taxi>>]} : Loaded(ledger)

SpecMembers == InitMembers("sequence") /\ [][NextMembers]_vars

\* the same with a second call started while the first is in flight
SpecMembersConcurrent == InitMembers("concurrent") /\ [][NextMembers]_vars

(***************************************************************************)
(* Pull to refresh (refreshData -> loadData) and the edit form moving an   *)
(* expense to another group, after a group was settled.                    *)
(***************************************************************************)
\* refreshData -> loadData: the lists setExpenses and setGroups are given when
\* the reads succeed
LoadData(store) ==
  [expenses |-> ParseList(store.expenses), groups |-> ParseList(store.groups)]

\* loadData with the user already stored; getExpenses and getGroups answer []
\* when their getItem throws (`failed` names the read that does)
RefreshData(failed) ==
  /\ CanStart
  /\ "json" \in DOMAIN storage.user
  /\ failed = "none" \/ faults < MaxFaults
  /\ faults' = IF failed = "none" THEN faults ELSE faults + 1
  /\ ops' = ops + 1
  /\ calls' = Append(calls, [op |-> "refreshData", args |-> <<>>,
                             payload |-> <<>>, tasks |-> <<>>,
                             result |-> "resolved", pre |-> Snapshot])
  /\ expenses' = IF failed = "expenses" THEN <<>> ELSE LoadData(storage).expenses
  /\ groups' = IF failed = "groups" THEN <<>> ELSE LoadData(storage).groups
  /\ user' = storage.user.json
  /\ UNCHANGED <<storage, nextId, clock, mode, screen, friends>>

\* the edit form saved with another group selected, groupId being what changes
MoveInputs == {[groupId |-> groups[i].id] : i \in 1 .. Len(groups)}

NextSettled ==
  \/ \E g \in GroupRefs : SettleGroup(g)
  \/ \E data \in ExpenseInputs : AddExpense(data)
  \/ \E id \in ExpenseRefs, updates \in UpdateInputs \cup MoveInputs :
       UpdateExpense(id, updates)
  \/ \E failed \in {"none", "expenses", "groups"} : RefreshData(failed)
  \/ \E i \in 1 .. Len(calls) :
       \E k \in 1 .. Len(calls[i].tasks), ok \in BOOLEAN : GetItem(i, k, ok)
  \/ \E i \in 1 .. Len(calls) :
       \E k \in 1 .. Len(calls[i].tasks), ok \in BOOLEAN : SetItem(i, k, ok)
  \/ \E i \in 1 .. Len(calls) : Return(i)
  \/ Tick

\* the calls made since the screen opened stay on record until returned
InitSettled ==
  /\ mode = "history"
  /\ \E ledger \in Ledgers : Loaded(ledger)

SpecSettled == InitSettled /\ [][NextSettled]_vars

(***************************************************************************)
(* Claims.                                                                 *)
(***************************************************************************)
\* The participant entries <<i, k>> of the unsettled in-memory expenses.
UnsettledEntries ==
  UNION {{<<i, k>> : k \in 1 .. Len(expenses[i].participants)} :
           i \in {j \in 1 .. Len(expenses) : expenses[j].isSettled = FALSE}}

EntryUser(e) == expenses[e[1]].participants[e[2]].userId

\* share - paid of one entry, as the specification states it
EntryDelta(e) ==
  expenses[e[1]].participants[e[2]].amount
    - (IF expenses[e[1]].paidBy = EntryUser(e) THEN expenses[e[1]].amount ELSE 0)

RECURSIVE SumDeltas(_)
SumDeltas(S) ==
  IF S = {} THEN 0
  ELSE LET e == CHOOSE x \in S : TRUE IN EntryDelta(e) + SumDeltas(S \ {e})

\* C1: the balances view has exactly one row per participant id that occurs
\* in an unsettled expense, and the row's amount is the sum of (share - paid)
\* over that participant's entries in unsettled expenses.
C1_BalanceRows ==
  LET rows == Balances(expenses)
  IN  /\ {rows[i].userId : i \in 1 .. Len(rows)}
           = {EntryUser(e) : e \in UnsettledEntries}
      /\ \A i, j \in 1 .. Len(rows) : rows[i].userId = rows[j].userId => i = j
      /\ \A i \in 1 .. Len(rows) :
           rows[i].amount =
             SumDeltas({e \in UnsettledEntries : EntryUser(e) = rows[i].userId})

\* a call changed the expense list and left the instance of the claim:
\* A pays 100 split 50/50 with B, A = -50, B = +50
C1_Witness ==
  /\ \E i \in 1 .. Len(calls) :
       calls[i].result = "resolved" /\ calls[i].pre.expenses # expenses
  /\ Cardinality({e[1] : e \in UnsettledEntries}) = 1
  /\ \E i \in 1 .. Len(expenses) :
       /\ ~expenses[i].isSettled
       /\ expenses[i].amount = 100 /\ expenses[i].paidBy = LocalUser
       /\ Len(expenses[i].participants) = 2
  /\ Balances(expenses) =
       << [userId |-> LocalUser, name |-> "User", amount |-> -50],
          [userId |-> "f1", name |-> "f1", amount |-> 50] >>

RECURSIVE SumShares(_)
SumShares(ps) == IF ps = <<>> THEN 0 ELSE Head(ps).amount + SumShares(Tail(ps))

PayerEntries(expense) ==
  {k \in 1 .. Len(expense.participants) :
     expense.participants[k].userId = expense.paidBy}

\* what the balance computation adds for one expense, over all participants
Contribution(expense) == SumAmounts(AddParticipants(<<>>, expense, 1))

Unsettled == {i \in 1 .. Len(expenses) : ~expenses[i].isSettled}

BalanceOf(rows, id) ==
  IF RowIndex(rows, id) # 0 THEN rows[RowIndex(rows, id)].amount ELSE 0

\* `after` is `before` with x lowered by a and y raised by a, the rest as before
Shifted(before, after, x, y, a) ==
  \A id \in PersonIds :
    BalanceOf(after, id) =
      BalanceOf(before, id) + (IF id = x THEN -a ELSE IF id = y THEN a ELSE 0)

MemberIds(group) ==
  {group.members[j].userId : j \in 1 .. Len(group.members)} \cup FriendsOf(group)

GroupById(groupList, id) == groupList[FindIndex(groupList, id)]

\* C3 (as stated): a resolved settleBetweenUsers of amount A > 0 from X to Y (two
\* members of an existing group, no storage failure) lowers X's balance by A and
\* raises Y's by A, globally and in the group, and changes no other balance.
C3_SettlementShiftsBalances ==
  \A i \in 1 .. Len(calls) :
    LET c == calls[i]
    IN  ( /\ c.op = "settleBetweenUsers" /\ c.result = "resolved"
          /\ faults = 0
          /\ c.args.amount > 0
          /\ c.args.fromUserId # c.args.toUserId
          /\ c.args.groupId \in Ids(c.pre.groups)
          /\ {c.args.fromUserId, c.args.toUserId}
               \subseteq MemberIds(GroupById(c.pre.groups, c.args.groupId)) )
        => /\ Shifted(Balances(c.pre.expenses), Balances(expenses),
                      c.args.fromUserId, c.args.toUserId, c.args.amount)
           /\ Shifted(GroupRows(c.pre.expenses, c.args.groupId),
                      GroupRows(expenses, c.args.groupId),
                      c.args.fromUserId, c.args.toUserId, c.args.amount)

StoredSettled(id) ==
  \A j \in 1 .. Len(StoredExpenses) :
    StoredExpenses[j].id = id => StoredExpenses[j].isSettled

MemorySettled(id) ==
  \A j \in 1 .. Len(expenses) : expenses[j].id = id => expenses[j].isSettled

\* C4 (as stated): when settleGroup(g) has resolved (no storage failure), every
\* expense of g that was unsettled at call time is settled in the persisted
\* collection and in memory.
C4_SettleGroupPersistsAll ==
  \A i \in 1 .. Len(calls) :
    LET c == calls[i]
    IN  (c.op = "settleGroup" /\ c.result = "resolved" /\ faults = 0)
        => \A n \in 1 .. Len(c.payload) :
             StoredSettled(c.payload[n]) /\ MemorySettled(c.payload[n])

GroupFullySettled(list, groupId) ==
  \A j \in 1 .. Len(list) :
    Get(list[j], "groupId") = groupId => list[j].isSettled

\* C5: settleGroup(g) on a group whose expenses are all settled (or that has
\* none) resolves and leaves the persisted expenses, the in-memory expense
\* records and both balance views as they were.
C5_SettleSettledGroupIsNoOp ==
  \A i \in 1 .. Len(calls) :
    LET c == calls[i]
    IN  ( /\ c.op = "settleGroup" /\ c.result # "pending"
          /\ GroupFullySettled(c.pre.expenses, c.args.groupId) )
        => /\ c.result = "resolved"
           /\ storage.expenses = c.pre.storage.expenses
           /\ expenses = c.pre.expenses
           /\ Balances(expenses) = Balances(c.pre.expenses)
           /\ GroupBalances(expenses, groups)
                = GroupBalances(c.pre.expenses, c.pre.groups)

\* settleGroup was called on a group that has expenses, all of them settled
C5_Witness ==
  \E i \in 1 .. Len(calls) :
    /\ calls[i].op = "settleGroup" /\ calls[i].result = "resolved"
    /\ GroupFullySettled(calls[i].pre.expenses, calls[i].args.groupId)
    /\ \E j \in 1 .. Len(expenses) :
         Get(expenses[j], "groupId") = calls[i].args.groupId
    /\ clock > TimeOf(expenses[1].updatedAt)

UnresolvedReference(c) ==
  \/ c.op = "settleGroup" /\ c.args.groupId \notin Ids(c.pre.groups)
  \/ /\ c.op = "settleBetweenUsers"
     /\ \/ c.args.groupId \notin Ids(c.pre.groups)
        \/ ~({c.args.fromUserId, c.args.toUserId}
               \subseteq MemberIds(GroupById(c.pre.groups, c.args.groupId)))

\* C6 (as stated): settleGroup and settleBetweenUsers with a group id that is
\* not in the group list, or a from/to id that is no member of the group,
\* reject and leave the persisted and in-memory expenses unmodified.
C6_UnresolvedReferenceRejects ==
  \A i \in 1 .. Len(calls) :
    LET c == calls[i]
    IN  UnresolvedReference(c)
        => /\ c.result # "resolved"
           /\ storage.expenses = c.pre.storage.expenses
           /\ expenses = c.pre.expenses

\* C7 (as stated): settleBetweenUsers with amount <= 0 is rejected and appends
\* no expense to the persisted store or to memory.
C7_NonPositiveAmountRejected ==
  \A i \in 1 .. Len(calls) :
    LET c == calls[i]
    IN  (c.op = "settleBetweenUsers" /\ c.args.amount <= 0)
        => /\ c.result # "resolved"
           /\ storage.expenses = c.pre.storage.expenses
           /\ expenses = c.pre.expenses

NotInGroup(list, groupId) ==
  LET Keep(e) == Get(e, "groupId") # groupId IN SelectSeq(list, Keep)

\* C8 (as stated): after deleteExpense(id) resolved no expense with that id, and
\* after deleteGroup(g) resolved no expense of group g, is left in memory or
\* in the persisted collection, and the balances are those of the remaining
\* expenses (stated for calls without a storage failure).
C8_DeletionRemovesContributions ==
  \A i \in 1 .. Len(calls) :
    LET c == calls[i]
    IN  /\ (c.op = "deleteExpense" /\ c.result = "resolved" /\ faults = 0)
           => /\ c.args.id \notin Ids(expenses)
              /\ c.args.id \notin Ids(StoredExpenses)
              /\ Balances(expenses) = Balances(DeleteCommit(c.pre.expenses, c.args.id))
        /\ (c.op = "deleteGroup" /\ c.result = "resolved" /\ faults = 0)
           => /\ NotInGroup(expenses, c.args.groupId) = expenses
              /\ NotInGroup(StoredExpenses, c.args.groupId) = StoredExpenses
              /\ Balances(expenses)
                   = Balances(NotInGroup(c.pre.expenses, c.args.groupId))

Memory == <<expenses, groups, user>>

MemoryBefore(c) == <<c.pre.expenses, c.pre.groups, c.pre.user>>

WriteFailed(c) == \E k \in 1 .. Len(c.tasks) : c.tasks[k].pc = "failed"

\* C9: a call whose persistence write fails rejects, and the in-memory
\* expenses, groups and user of a call that has not resolved are those from
\* before the call.
C9_StoreFirst ==
  \A i \in 1 .. Len(calls) :
    LET c == calls[i]
    IN  /\ WriteFailed(c) => c.result = "rejected"
        /\ c.result # "resolved" => Memory = MemoryBefore(c)

\* a call was rejected for a failed write after another of its writes had
\* already changed the store
C9_Witness ==
  \E i \in 1 .. Len(calls) :
    /\ WriteFailed(calls[i]) /\ calls[i].result = "rejected"
    /\ storage # calls[i].pre.storage
    /\ Memory = MemoryBefore(calls[i])

\* an expense mutation (a new expense, or one that is in the persisted
\* collection) whose read of the collection threw
ExpenseReadFailed(c) ==
  /\ c.op \in {"addExpense", "updateExpense", "deleteExpense", "settleGroup"}
  /\ \E k \in 1 .. Len(c.tasks) :
       /\ ~c.tasks[k].readOk
       /\ \/ c.tasks[k].kind = "saveExpense"
          \/ /\ c.tasks[k].kind = "updateExpense"
             /\ c.tasks[k].arg.id \in Ids(ParseList(c.pre.storage.expenses))
          \/ /\ c.tasks[k].kind = "deleteExpense"
             /\ c.tasks[k].arg \in Ids(ParseList(c.pre.storage.expenses))

\* C10 (as stated): when the read of the expense collection fails inside an
\* expense mutation, the call fails to the caller and the persisted expense
\* collection stays as it was.
C10_ReadFailureSurfaces ==
  \A i \in 1 .. Len(calls) :
    LET c == calls[i]
    IN  ExpenseReadFailed(c)
        => /\ c.result # "resolved"
           /\ storage.expenses = c.pre.storage.expenses

\* a call on an identifier that is in neither form of the collection it names
NotFound(c) ==
  \/ /\ c.op \in {"updateExpense", "deleteExpense"}
     /\ c.args.id \notin Ids(c.pre.expenses)
     /\ c.args.id \notin Ids(ParseList(c.pre.storage.expenses))
  \/ /\ c.op = "updateGroup"
     /\ c.args.id \notin Ids(c.pre.groups)
     /\ c.args.id \notin Ids(ParseList(c.pre.storage.groups))

\* C11 (as stated): updateExpense, deleteExpense and updateGroup called with an
\* identifier absent from the collection reject, and change neither the
\* persisted records nor the in-memory state (no storage failure involved).
C11_NotFoundRejects ==
  \A i \in 1 .. Len(calls) :
    LET c == calls[i]
    IN  (NotFound(c) /\ faults = 0 /\ Finished(c))
        => /\ c.result = "rejected"
           /\ StoredExpenses = ParseList(c.pre.storage.expenses)
           /\ StoredGroups = ParseList(c.pre.storage.groups)
           /\ Memory = MemoryBefore(c)

ExpenseMutation(c) == c.op \in {"addExpense", "updateExpense", "deleteExpense"}

\* C12 (as stated): once the addExpense, updateExpense and deleteExpense calls
\* of a behaviour have all resolved (two of them may have been in flight
\* together, no storage failure), the persisted expense collection reflects
\* every one of them: it is the in-memory list in its JSON form.
C12_NoLostUpdate ==
  ( /\ faults = 0
    /\ ops = Len(calls)
    /\ \A i \in 1 .. Len(calls) :
         ExpenseMutation(calls[i]) /\ Finished(calls[i])
                                  /\ calls[i].result = "resolved" )
  => StoredExpenses = JsonList(expenses)

\* the sum of |amount| over the rows, and of the positive amounts
AbsTotal(rows) ==
  LET f[k \in 0 .. Len(rows)] ==
        IF k = 0 THEN 0 ELSE f[k - 1] + Abs(rows[k].amount)
  IN  f[Len(rows)]

PositiveTotal(rows) ==
  LET f[k \in 0 .. Len(rows)] ==
        IF k = 0 THEN 0
        ELSE f[k - 1] + (IF rows[k].amount > 0 THEN rows[k].amount ELSE 0)
  IN  f[Len(rows)]

\* C13: for every group, totalAmount is half of the sum of the absolute
\* values of the group's balance rows, and when the rows sum to zero it is the
\* sum of the positive rows.
C13_TotalAmount ==
  \A i \in 1 .. Len(groups) :
    LET gb == GroupBalances(expenses, groups)[i]
    IN  /\ gb.totalAmount.halves = AbsTotal(gb.balances)
        /\ SumAmounts(gb.balances) = 0
             => gb.totalAmount.halves = 2 * PositiveTotal(gb.balances)

\* a call left a group where A paid 90 split 30 each with B and C:
\* A = -60, B = +30, C = +30 and totalAmount = 60
C13_Witness ==
  /\ \E i \in 1 .. Len(calls) : calls[i].result = "resolved"
  /\ \E i \in 1 .. Len(groups) :
       LET gb == GroupBalances(expenses, groups)[i]
       IN  /\ gb.balances = << [userId |-> "f1", name |-> "f1", amount |-> -60],
                               [userId |-> "f2", name |-> "f2", amount |-> 30],
                               [userId |-> LocalUser, name |-> "User", amount |-> 30] >>
           /\ gb.totalAmount.halves = 2 * 60

\* the participant entries of the unsettled expenses of group g
GroupEntries(g) ==
  {e \in UnsettledEntries : Get(expenses[e[1]], "groupId") = g}

\* C14: groupBalances has one GroupBalance per group of the group list, in
\* the same order with the same ids; its rows are the share - paid sums over
\* the unsettled expenses of that group only; a group without such an expense
\* has no row and totalAmount 0.
C14_GroupBalancesShape ==
  LET gbs == GroupBalances(expenses, groups)
  IN  /\ Len(gbs) = Len(groups)
      /\ \A i \in 1 .. Len(groups) :
           LET rows == gbs[i].balances
               mine == GroupEntries(groups[i].id)
           IN  /\ gbs[i].groupId = groups[i].id
               /\ gbs[i].groupName = groups[i].name
               /\ {rows[k].userId : k \in 1 .. Len(rows)}
                    = {EntryUser(e) : e \in mine}
               /\ \A k, l \in 1 .. Len(rows) :
                    rows[k].userId = rows[l].userId => k = l
               /\ \A k \in 1 .. Len(rows) :
                    rows[k].amount =
                      SumDeltas({e \in mine : EntryUser(e) = rows[k].userId})
               /\ mine = {} => rows = <<>> /\ gbs[i].totalAmount.halves = 0

\* a call left two groups that each have rows, and not the same ones
C14_Witness ==
  /\ \E i \in 1 .. Len(calls) : calls[i].result = "resolved"
  /\ Len(groups) = 2
  /\ LET gbs == GroupBalances(expenses, groups)
     IN  /\ gbs[1].balances # <<>>
         /\ gbs[2].balances # <<>>
         /\ gbs[1].balances # gbs[2].balances

\* mapping[key], an absent key counting as 0
At(mapping, key) == IF key \in DOMAIN mapping THEN mapping[key] ELSE 0

RECURSIVE SumValues(_, _)
SumValues(mapping, keys) ==
  IF keys = {} THEN 0
  ELSE LET k == CHOOSE x \in keys : TRUE
       IN  mapping[k] + SumValues(mapping, keys \ {k})

ValuesTotal(mapping) == SumValues(mapping, DOMAIN mapping)

\* C15: the values of getExpensesByCategory() add up to those of
\* getGroupExpensesByCategory() plus those of getPersonalExpensesByCategory(),
\* in total and for every category key (an absent key counting as 0).
C15_CategoryPartition ==
  LET all      == GetExpensesByCategory(expenses)
      grouped  == GetGroupExpensesByCategory(expenses)
      personal == GetPersonalExpensesByCategory(expenses)
  IN  /\ ValuesTotal(all) = ValuesTotal(grouped) + ValuesTotal(personal)
      /\ \A k \in DOMAIN all \cup DOMAIN grouped \cup DOMAIN personal :
           At(all, k) = At(grouped, k) + At(personal, k)

\* a call left group expenses and personal expenses, in several categories
C15_Witness ==
  /\ \E i \in 1 .. Len(calls) :
       calls[i].result = "resolved" /\ calls[i].pre.expenses # expenses
  /\ DOMAIN GetGroupExpensesByCategory(expenses) # {}
  /\ DOMAIN GetPersonalExpensesByCategory(expenses) # {}
  /\ Cardinality(DOMAIN GetExpensesByCategory(expenses)) >= 2
  /\ ValuesTotal(GetGroupExpensesByCategory(expenses)) > 0
  /\ ValuesTotal(GetPersonalExpensesByCategory(expenses)) > 0

\* the indices of the in-memory expenses in the scope of a view
ScopeAll == 1 .. Len(expenses)
ScopeGroup == {i \in ScopeAll : Get(expenses[i], "groupId") # Undefined}
ScopePersonal == ScopeAll \ ScopeGroup

RECURSIVE SumExpenseAmounts(_)
SumExpenseAmounts(S) ==
  IF S = {} THEN 0
  ELSE LET i == CHOOSE x \in S : TRUE
       IN  expenses[i].amount + SumExpenseAmounts(S \ {i})

\* the keys of the mapping are the categories of the scope, each value the sum
\* of the expense amounts of its category
SparseTotals(mapping, scope) ==
  /\ DOMAIN mapping = {expenses[i].category : i \in scope}
  /\ \A k \in DOMAIN mapping :
       mapping[k] = SumExpenseAmounts({i \in scope : expenses[i].category = k})

\* C16: in each of the three category views the keys are exactly the
\* categories that have an expense in the view's scope, and each value is the
\* sum of the expense amounts of that category.
C16_SparseCategories ==
  /\ SparseTotals(GetExpensesByCategory(expenses), ScopeAll)
  /\ SparseTotals(GetGroupExpensesByCategory(expenses), ScopeGroup)
  /\ SparseTotals(GetPersonalExpensesByCategory(expenses), ScopePersonal)

\* a call left two expenses of one category, whose shares are not the amount,
\* and a category that only the personal view has
C16_Witness ==
  /\ \E i \in 1 .. Len(calls) :
       calls[i].result = "resolved" /\ calls[i].pre.expenses # expenses
  /\ \E i, j \in ScopeAll :
       /\ i # j /\ expenses[i].category = expenses[j].category
       /\ expenses[i].amount > 0 /\ expenses[j].amount > 0
       /\ Len(expenses[i].participants) > 1
  /\ DOMAIN GetPersonalExpensesByCategory(expenses)
       \ DOMAIN GetGroupExpensesByCategory(expenses) # {}

\* the record has the shape of a settlement of amount a from x to y in group g
SettlementShape(rec, g, x, y, a) ==
  /\ rec.title = "Settlement" /\ rec.category = "other"
  /\ rec.amount = a /\ Get(rec, "groupId") = g /\ rec.paidBy = x
  /\ rec.isSettled
  /\ Len(rec.participants) = 2
  /\ rec.participants[1].userId = x /\ rec.participants[1].amount = a
  /\ rec.participants[1].isSettled
  /\ rec.participants[2].userId = y /\ rec.participants[2].amount = 0
  /\ rec.participants[2].isSettled

ReadFailed(c) == \E k \in 1 .. Len(c.tasks) : ~c.tasks[k].readOk

\* C17: a resolved settleBetweenUsers has appended exactly one expense to the
\* in-memory list, of the settlement shape, whatever the amount; the
\* persisted collection ends with that record, and is the earlier collection
\* plus that record when its read did not fail.
C17_SettlementRecord ==
  \A i \in 1 .. Len(calls) :
    LET c == calls[i]
        n == Len(c.pre.expenses)
        m == Len(StoredExpenses)
    IN  (c.op = "settleBetweenUsers" /\ c.result = "resolved")
        => /\ Len(expenses) = n + 1
           /\ SubSeq(expenses, 1, n) = c.pre.expenses
           /\ SettlementShape(expenses[n + 1], c.args.groupId,
                              c.args.fromUserId, c.args.toUserId, c.args.amount)
           /\ m > 0 /\ StoredExpenses[m] = JsonRecord(expenses[n + 1])
           /\ ~ReadFailed(c)
                => StoredExpenses = Append(ParseList(c.pre.storage.expenses),
                                           JsonRecord(expenses[n + 1]))

\* a settlement of more than the payer owes in the group was accepted
C17_Witness ==
  \E i \in 1 .. Len(calls) :
    LET c == calls[i]
    IN  /\ c.op = "settleBetweenUsers" /\ c.result = "resolved" /\ faults = 0
        /\ c.args.groupId \in Ids(c.pre.groups)
        /\ c.args.amount
             > Abs(BalanceOf(GroupRows(c.pre.expenses, c.args.groupId),
                             c.args.fromUserId))
        /\ BalanceOf(GroupRows(c.pre.expenses, c.args.groupId),
                     c.args.fromUserId) > 0
        /\ c.args.fromUserId # c.args.toUserId

\* the two records differ at most in the given fields
SameBut(old, new, fields) ==
  /\ DOMAIN old = DOMAIN new
  /\ \A f \in DOMAIN old \ fields : old[f] = new[f]

\* `after` is what a settlement call may make of the expense list `before`
SettlementFrame(c, before, after) ==
  IF c.op = "settleGroup"
  THEN /\ Len(after) = Len(before)
       /\ \A j \in 1 .. Len(before) :
            IF InGroupUnsettled(before[j], c.args.groupId)
            THEN SameBut(before[j], after[j], {"isSettled", "updatedAt"})
            ELSE after[j] = before[j]
  ELSE /\ Len(after) = Len(before) + 1
       /\ SubSeq(after, 1, Len(before)) = before

\* C18 (as stated): a resolved settleGroup(g) has changed only isSettled and
\* updatedAt of the expenses of g that were unsettled, a resolved
\* settleBetweenUsers has only appended one record; every other expense, in
\* memory and in the persisted collection, is as it was and none is gone.
C18_SettlementFrame ==
  \A i \in 1 .. Len(calls) :
    LET c == calls[i]
    IN  ( /\ c.op \in {"settleGroup", "settleBetweenUsers"}
          /\ c.result = "resolved" /\ Finished(c) )
        => /\ SettlementFrame(c, c.pre.expenses, expenses)
           /\ SettlementFrame(c, ParseList(c.pre.storage.expenses),
                              StoredExpenses)

\* the positions of the friend list whose id is in the friend directory
Resolving(friendIds) == {j \in 1 .. Len(friendIds) : friendIds[j] \in FriendIds}

\* `list` is the local user followed by the resolving ids of friendIds, in
\* their order
UserThenFriends(list, friendIds) ==
  /\ Len(list) = 1 + Cardinality(Resolving(friendIds))
  /\ list[1] = [id |-> user.id, name |-> user.name, isFriend |-> FALSE]
  /\ \A j \in Resolving(friendIds) :
       LET k == 1 + Cardinality({l \in Resolving(friendIds) : l <= j})
       IN  /\ list[k].id = friendIds[j]
           /\ list[k].name = NameOf(friendIds[j])
           /\ list[k].isFriend

\* C20: for an existing group the candidates are the local user, then the ids
\* of the group's friendIds that are in the friend directory, in friendIds
\* order, the others being skipped; for a selected id that is no group the
\* list is empty; with no group selected it is the local user alone.
C20_MemberResolver ==
  /\ GetAvailableParticipants(Null, groups, user)
       = << [id |-> user.id, name |-> user.name, isFriend |-> FALSE] >>
  /\ \A g \in GroupRefs \ Ids(groups) :
       GetAvailableParticipants(g, groups, user) = <<>>
  /\ \A i \in 1 .. Len(groups) :
       UserThenFriends(GetAvailableParticipants(groups[i].id, groups, user),
                       IF "friendIds" \in DOMAIN groups[i]
                       THEN groups[i].friendIds ELSE <<>>)

\* a call has resolved, one group has two friends that resolve and another a
\* friend that does not resolve before one that does
C20_Witness ==
  /\ \E i \in 1 .. Len(calls) : calls[i].result = "resolved"
  /\ \E i \in 1 .. Len(groups) :
       /\ "friendIds" \in DOMAIN groups[i]
       /\ Cardinality(Resolving(groups[i].friendIds)) = 2
  /\ \E i \in 1 .. Len(groups) :
       /\ "friendIds" \in DOMAIN groups[i]
       /\ groups[i].friendIds[1] \notin FriendIds
       /\ Len(GetAvailableParticipants(groups[i].id, groups, user)) = 2
       /\ GetAvailableParticipants(groups[i].id, groups, user)[2].id = "f1"

\* the sum of the custom shares of a form, and the amount entered on it
CustomTotal(form) ==
  LET f[k \in 0 .. Len(form.customSplits)] ==
        IF k = 0 THEN 0 ELSE f[k - 1] + form.customSplits[k].amount
  IN  f[Len(form.customSplits)]

Entered(form) == NumberOf(form.amount)[1]

Distance(a, b) == IF a < b THEN b - a ELSE a - b

\* C19: when Save is pressed on a form with split type custom, the save goes
\* on to addExpense/updateExpense only if the custom shares sum to the entered
\* amount within 0.01, and a total closer than 0.01 is not what rejects it; a
\* save that ends in an alert starts no call and leaves the store and the
\* state in memory as they were.
C19_CustomSplitValidation ==
  [][screen' # screen =>
       /\ (screen'.form.splitType = "custom" /\ screen'.alert = "none")
            => Distance(CustomTotal(screen'.form), Entered(screen'.form))
                 <= Tolerance
       /\ (screen'.form.splitType = "custom" /\ screen'.alert = "customTotal")
            => Distance(CustomTotal(screen'.form), Entered(screen'.form))
                 >= Tolerance
       /\ screen'.alert = "none"
            => /\ Len(calls') = Len(calls) + 1
               /\ calls'[Len(calls')].op \in {"addExpense", "updateExpense"}
       /\ screen'.alert # "none"
            => UNCHANGED <<expenses, groups, user, storage, calls>>]_vars

\* a custom split of 50.000 and 49.995 against 100.00 was saved: addExpense
\* resolved and the record is in the store and in memory with these shares
C19_Witness ==
  /\ screen.form # NewForm
  /\ screen.alert = "none"
  /\ screen.form.splitType = "custom"
  /\ CustomTotal(screen.form) = 99995
  /\ Entered(screen.form) = 100000
  /\ \E i \in 1 .. Len(calls) :
       /\ calls[i].op = "addExpense"
       /\ calls[i].result = "resolved"
       /\ \E k \in 1 .. Len(expenses) :
            /\ expenses[k].id = calls[i].payload.id
            /\ expenses[k].amount = 100000
            /\ expenses[k].participants[2].amount = 49995
       /\ \E k \in 1 .. Len(StoredExpenses) :
            StoredExpenses[k].id = calls[i].payload.id

\* `after` is the list `before` with `updates` merged over the record `id`:
\* that record has the fields of updates at their new values and its other
\* fields, updatedAt apart, as they were; the other records are as they were
ShallowMerged(before, after, id, updates) ==
  /\ Len(after) = Len(before)
  /\ \A j \in 1 .. Len(before) :
       IF before[j].id = id
       THEN /\ DOMAIN after[j] = DOMAIN before[j] \cup DOMAIN updates
                                   \cup {"updatedAt"}
            /\ \A f \in DOMAIN updates : after[j][f] = updates[f]
            /\ \A f \in DOMAIN before[j] \ (DOMAIN updates \cup {"updatedAt"}) :
                 after[j][f] = before[j][f]
       ELSE after[j] = before[j]

\* an updateExpense call on an expense that memory and the store both have
UpdateOfExisting(c) ==
  /\ c.op = "updateExpense"
  /\ c.args.id \in Ids(c.pre.expenses)
  /\ c.args.id \in Ids(ParseList(c.pre.storage.expenses))

\* C24 (as stated): a resolved updateExpense(id, updates) for an existing id has
\* replaced exactly the fields of updates and updatedAt, in the persisted record
\* and in the in-memory record, and has left every other field of that expense
\* and every other expense as they were.
C24_ShallowMerge ==
  \A i \in 1 .. Len(calls) :
    LET c == calls[i]
    IN  (UpdateOfExisting(c) /\ c.result = "resolved" /\ Finished(c))
        => /\ ShallowMerged(c.pre.expenses, expenses, c.args.id, c.args.updates)
           /\ ShallowMerged(ParseList(c.pre.storage.expenses), StoredExpenses,
                            c.args.id, c.args.updates)

\* a record without its timestamps
Undated(r) == [f \in DOMAIN r \ DateFields |-> r[f]]

SameRecords(list, stored) ==
  /\ Len(list) = Len(stored)
  /\ \A j \in 1 .. Len(list) : Undated(JsonRecord(list[j])) = Undated(stored[j])

LedgerMutation(c) ==
  c.op \in {"addExpense", "updateExpense", "deleteExpense", "settleGroup",
            "settleBetweenUsers", "addGroup", "updateGroup", "deleteGroup"}

\* C25 (as stated): when a mutation of the ledger, run alone, has completed
\* successfully (no storage failure), the in-memory expenses and groups are the
\* persisted records, timestamps aside, and refreshData would change neither
\* the balances, nor the group balances, nor a category total.
C25_MemoryStoreAgreement ==
  \A i \in 1 .. Len(calls) :
    LET c    == calls[i]
        load == LoadData(storage)
    IN  (LedgerMutation(c) /\ c.result = "resolved" /\ Finished(c) /\ faults = 0)
        => /\ SameRecords(expenses, load.expenses)
           /\ SameRecords(groups, load.groups)
           /\ Balances(load.expenses) = Balances(expenses)
           /\ GroupBalances(load.expenses, load.groups)
                = GroupBalances(expenses, groups)
           /\ GetExpensesByCategory(load.expenses)
                = GetExpensesByCategory(expenses)
           /\ GetGroupExpensesByCategory(load.expenses)
                = GetGroupExpensesByCategory(expenses)
           /\ GetPersonalExpensesByCategory(load.expenses)
                = GetPersonalExpensesByCategory(expenses)

\* C27 (as stated): when deleteGroup or settleGroup has failed because one of
\* its storage writes failed, the persisted groups and expenses are those from
\* before the call.
C27_AllOrNothing ==
  \A i \in 1 .. Len(calls) :
    LET c == calls[i]
    IN  ( /\ c.op \in {"deleteGroup", "settleGroup"}
          /\ WriteFailed(c) /\ c.result = "rejected" /\ Finished(c) )
        => /\ StoredGroups = ParseList(c.pre.storage.groups)
           /\ StoredExpenses = ParseList(c.pre.storage.expenses)

\* the totals `new` are the totals `old` with `amount` more under `category`
RaisedBy(old, new, category, amount) ==
  /\ DOMAIN new = DOMAIN old \cup {category}
  /\ \A k \in DOMAIN new :
       new[k] = At(old, k) + (IF k = category THEN amount ELSE 0)

\* C29: a resolved settleGroup leaves the three category views as they were; a
\* resolved settleBetweenUsers with amount A raises the total of 'other' by A
\* in the view of all expenses and in the view of the group expenses, and
\* leaves the other categories and the view of the personal expenses as they
\* were.
C29_CategoryTotalsIgnoreSettled ==
  \A i \in 1 .. Len(calls) :
    LET c == calls[i]
    IN  /\ (c.op = "settleGroup" /\ c.result = "resolved")
             => /\ GetExpensesByCategory(expenses)
                     = GetExpensesByCategory(c.pre.expenses)
                /\ GetGroupExpensesByCategory(expenses)
                     = GetGroupExpensesByCategory(c.pre.expenses)
                /\ GetPersonalExpensesByCategory(expenses)
                     = GetPersonalExpensesByCategory(c.pre.expenses)
        /\ (c.op = "settleBetweenUsers" /\ c.result = "resolved")
             => /\ RaisedBy(GetExpensesByCategory(c.pre.expenses),
                            GetExpensesByCategory(expenses),
                            "other", c.args.amount)
                /\ RaisedBy(GetGroupExpensesByCategory(c.pre.expenses),
                            GetGroupExpensesByCategory(expenses),
                            "other", c.args.amount)
                /\ GetPersonalExpensesByCategory(expenses)
                     = GetPersonalExpensesByCategory(c.pre.expenses)

\* a settlement of 50 has resolved in a ledger that had a total under another
\* category and a personal expense, and the view of all expenses now has 50
\* under 'other'
C29_Witness ==
  \E i \in 1 .. Len(calls) :
    LET c == calls[i]
    IN  /\ c.op = "settleBetweenUsers" /\ c.result = "resolved"
        /\ c.args.amount = 50
        /\ DOMAIN GetExpensesByCategory(c.pre.expenses) # {}
        /\ DOMAIN GetPersonalExpensesByCategory(c.pre.expenses) # {}
        /\ "other" \notin DOMAIN GetExpensesByCategory(c.pre.expenses)
        /\ GetExpensesByCategory(expenses)["other"] = 50
        /\ GetGroupExpensesByCategory(expenses)["other"] = 50


\* the helpers that read the in-memory expense list
Helpers == {"getRecentExpenses", "getExpensesByGroup", "getTotalBalance"}
             \cup CategoryViews

\* rows holds the count records of list with the latest createdAt, latest first
LatestFirst(rows, list, count) ==
  /\ Len(rows) = count
  /\ \A j \in 1 .. (Len(rows) - 1) :
       TimeOf(rows[j].createdAt) >= TimeOf(rows[j + 1].createdAt)
  /\ \E chosen \in SUBSET (1 .. Len(list)) :
       /\ Cardinality(chosen) = count
       /\ \A j \in chosen, k \in (1 .. Len(list)) \ chosen :
            TimeOf(list[j].createdAt) >= TimeOf(list[k].createdAt)
       /\ \E place \in [1 .. count -> chosen] :
            /\ \A a, b \in 1 .. count : a # b => place[a] # place[b]
            /\ \A a \in 1 .. count : rows[a] = list[place[a]]

\* C30 (as stated): a helper call leaves the in-memory expense list as it was,
\* the order of its records included, and getRecentExpenses(limit) answers the
\* min(limit, n) records with the latest createdAt, latest first.
C30_HelpersReadOnly ==
  \A i \in 1 .. Len(calls) :
    LET c == calls[i]
    IN  c.op \in Helpers =>
          /\ expenses = c.pre.expenses
          /\ c.op = "getRecentExpenses" =>
               LatestFirst(c.payload, c.pre.expenses,
                           IF c.args.limit < Len(c.pre.expenses)
                           THEN c.args.limit ELSE Len(c.pre.expenses))


\* the record a call started by handleSave was handed
SavedRecord(call) ==
  IF call.op = "addExpense" THEN call.args ELSE call.args.updates

SavedByForm(call) == call.op \in {"addExpense", "updateExpense"}

SharesMatch(record) ==
  IF record.splitType = "custom"
  THEN Abs(SumAmounts(record.participants) - record.amount) <= Tolerance
  ELSE SumAmounts(record.participants) = record.amount

\* C23 (as stated): every record handleSave hands to addExpense or
\* updateExpense has at least one participant, and its shares add up to its
\* amount (to 0.01 for a custom split).
C23_SharesSumToAmount ==
  \A i \in 1 .. Len(calls) :
    SavedByForm(calls[i]) =>
      /\ SavedRecord(calls[i]).participants # << >>
      /\ SharesMatch(SavedRecord(calls[i]))

\* C26 (as stated): every record handleSave hands to addExpense or
\* updateExpense has its payer among its participants.
C26_PayerIsParticipant ==
  \A i \in 1 .. Len(calls) :
    SavedByForm(calls[i]) =>
      \E k \in 1 .. Len(SavedRecord(calls[i]).participants) :
        SavedRecord(calls[i]).participants[k].userId
          = SavedRecord(calls[i]).paidBy


MemberOps == {"addMemberToGroup", "removeMemberFromGroup"}

Occurrences(list, x) == Cardinality({k \in 1 .. Len(list) : list[k] = x})

\* the friendIds of group groupId in groupList, << >> when it has no such group
MembersIn(groupList, groupId) ==
  IF FindIndex(groupList, groupId) = 0 THEN << >>
  ELSE FriendIdsOf(groupList[FindIndex(groupList, groupId)])

\* C28 (as stated): in the step in which addMemberToGroup(g, f) resolves, f
\* comes to occur exactly once in the friendIds of g and every id that was in
\* them stays in them, also when f was a member already and when another
\* membership call on g was in flight; a membership call on a group that is
\* not in the group list is rejected and changes nothing.
C28_MembershipIsSet ==
  [][/\ \A i \in 1 .. Len(calls) :
          (/\ i <= Len(calls')
           /\ calls[i].op = "addMemberToGroup"
           /\ calls[i].result = "pending"
           /\ calls'[i].result = "resolved")
          => LET before == MembersIn(groups, calls[i].args.groupId)
                 after  == MembersIn(groups', calls[i].args.groupId)
             IN  /\ Occurrences(after, calls[i].args.friendId) = 1
                 /\ \A k \in 1 .. Len(before) : Occurrences(after, before[k]) > 0
     /\ (/\ Len(calls') = Len(calls) + 1
         /\ calls'[Len(calls')].op \in MemberOps
         /\ FindIndex(groups, calls'[Len(calls')].args.groupId) = 0)
        => /\ calls'[Len(calls')].result = "rejected"
           /\ UNCHANGED <<expenses, groups, user, storage, friends>>]_vars


MembershipChange(call) == call.op \in MemberOps \cup {"deleteFriend"}

\* C21: a call of removeMemberFromGroup, addMemberToGroup or deleteFriend, in
\* flight or finished, resolved or rejected, leaves the expenses in memory and
\* in the store as they were when it started, and with them the balances and
\* the balance rows and totals of every group.
C21_MembershipLeavesLedger ==
  \A i \in 1 .. Len(calls) :
    LET c == calls[i]
    IN  MembershipChange(c) =>
          /\ expenses = c.pre.expenses
          /\ storage.expenses = c.pre.storage.expenses
          /\ Balances(expenses) = Balances(c.pre.expenses)
          /\ GroupBalances(expenses, groups)
               = GroupBalances(c.pre.expenses, c.pre.groups)

\* f1 was removed from the group it shares unsettled expenses with and then
\* deleted from the friend directory; the balances and the rows of the group
\* still carry f1 under the name the expenses recorded
C21_Witness ==
  \E i \in 1 .. Len(calls) :
    /\ calls[i].op = "deleteFriend"
    /\ calls[i].args.friendId = "f1"
    /\ calls[i].result = "resolved"
    /\ Finished(calls[i])
    /\ FindIndex(friends, "f1") = 0
    /\ FindIndex(ParseList(storage.friends), "f1") = 0
    /\ \E g \in 1 .. Len(groups) :
         /\ FriendIdsOf(calls[i].pre.groups[g]) = << "f2" >>
         /\ \E k \in 1 .. Len(GroupRows(expenses, groups[g].id)) :
              /\ GroupRows(expenses, groups[g].id)[k].userId = "f1"
              /\ GroupRows(expenses, groups[g].id)[k].name = "f1"
    /\ \E k \in 1 .. Len(Balances(expenses)) :
         Balances(expenses)[k].userId = "f1"


\* the expenses of list outside group groupId
OutsideGroup(list, groupId) ==
  SelectSeq(list, LAMBDA expense : Get(expense, "groupId") # groupId)

\* the settled-exclusive view of group groupId: no balance row and a total of
\* 0 for the group, and global balances that come from outside the group
SettledView(list, groupId) ==
  /\ GroupRows(list, groupId) = << >>
  /\ SumAbs(GroupRows(list, groupId)) = 0
  /\ Balances(list) = Balances(OutsideGroup(list, groupId))

\* the calls that end the view: an unsettled expense added to the group, an
\* expense of the group updated with isSettled = false
EndsSettledView(call, groupId) ==
  \/ /\ call.op = "addExpense"
     /\ Get(call.args, "groupId") = groupId
     /\ ~call.args.isSettled
  \/ /\ call.op = "updateExpense"
     /\ FindIndex(call.pre.expenses, call.args.id) # 0
     /\ Get(call.pre.expenses[FindIndex(call.pre.expenses, call.args.id)],
            "groupId") = groupId
     /\ "isSettled" \in DOMAIN call.args.updates
     /\ ~call.args.updates.isSettled

\* call i is a settleGroup that resolved, and every call started since is still
\* among the calls (none was returned)
SettledEarlier(i) ==
  /\ Len(calls) = ops
  /\ calls[i].op = "settleGroup"
  /\ calls[i].result = "resolved"
  /\ Finished(calls[i])

\* C22 (as stated): once settleGroup(g) has resolved, group g has no balance
\* row and total 0 and the global balances are those of the unsettled
\* expenses outside g, as long as no call since has added an unsettled expense
\* to g or updated an expense of g with isSettled = false.
C22_SettledExclusiveView ==
  \A i \in 1 .. Len(calls) :
    (/\ SettledEarlier(i)
     /\ \A j \in (i + 1) .. Len(calls) :
          ~EndsSettledView(calls[j], calls[i].args.groupId))
    => SettledView(expenses, calls[i].args.groupId)

=============================================================================
